---------------------------- MODULE Spec2Model ----------------------------
(***************************************************************************)
(* A model of the universal MongoDB analysis evaluator                     *)
(* (src/mongodb_evaluation_system.py).                                     *)
(*                                                                         *)
(* Python values are modelled as records (see PyValue below); a Python     *)
(* str is a sequence of one-character strings, a character outside ASCII   *)
(* being written "U+XXXX".  A rate is the exact fraction [n, d] of the     *)
(* two integers the code divides; thresholds are in thousandths.  The      *)
(* rounding of IEEE doubles is not modelled.                               *)
(***************************************************************************)
EXTENDS Integers, Sequences, FiniteSets, TLC

VARIABLES
    analysis_query,       \* UniversalAnalysisResult.analysis_query
    mongodb_queries,      \* UniversalAnalysisResult.mongodb_queries
    calculation_results,  \* UniversalAnalysisResult.calculation_results
    execution_logs,       \* UniversalAnalysisResult.execution_logs
    ground_truth,         \* the ground_truth argument of evaluate
    custom_thresholds,    \* the thresholds argument the evaluator was built with
    thresholds,           \* UniversalMongoDBEvaluator.thresholds
    calls,                \* the calls made so far: arguments, what they left, outcome
    metrics,              \* the EvaluationMetrics returned by the call
    error,                \* the exception the call raised ("" when none)
    pc                    \* "start" before the call, then "done" or "raised"

vars == <<analysis_query, mongodb_queries, calculation_results, execution_logs,
          ground_truth, custom_thresholds, thresholds, calls, metrics, error, pc>>

(***************************************************************************)
(* Bounds of the model.                                                    *)
(***************************************************************************)
MaxQueries == 2
MaxFields == 3
MaxLogs == 2

\* the calls made on one evaluator
MaxCalls == 3

(***************************************************************************)
(* Characters and strings.                                                 *)
(***************************************************************************)
UpperChars ==
    <<"A", "B", "C", "D", "E", "F", "G", "H", "I", "J", "K", "L", "M",
      "N", "O", "P", "Q", "R", "S", "T", "U", "V", "W", "X", "Y", "Z">>

LowerChars ==
    <<"a", "b", "c", "d", "e", "f", "g", "h", "i", "j", "k", "l", "m",
      "n", "o", "p", "q", "r", "s", "t", "u", "v", "w", "x", "y", "z">>

DigitChars == <<"0", "1", "2", "3", "4", "5", "6", "7", "8", "9">>

\* the Hangul syllables the texts of the model use (all are \w, none has case)
HangulChars ==
    {"U+D65C", "U+C131", "U+C0AC", "U+C6A9", "U+C790", "U+C218", "U+ACC4",
     "U+C0B0", "U+C5F0", "U+ACB0", "U+BE44", "U+C728", "U+B960",
     "U+ACE0", "U+AC1D", "U+C0DD", "U+C560", "U+AC00", "U+CE58", "U+BD84", "U+C11D"}

UpperSet == {UpperChars[i] : i \in 1..26}

UpperIndex == [c \in UpperSet |-> CHOOSE i \in 1..26 : UpperChars[i] = c]

\* str.lower() on one character
LowerChar(c) == IF c \in UpperSet THEN LowerChars[UpperIndex[c]] ELSE c

\* str.lower()
Lower(s) == [i \in 1..Len(s) |-> LowerChar(s[i])]

\* the characters str.strip() removes and the regex class \s matches
SpaceSet == {" ", "\t", "\n", "\r"}

\* the regex class \w
WordSet ==
    UpperSet \cup {LowerChars[i] : i \in 1..26} \cup {DigitChars[i] : i \in 1..10}
        \cup {"_"} \cup HangulChars

\* the regex class [!=<>]
OpSet == {"!", "=", "<", ">"}

\* s[i:] starts with sub
StartsAt(s, sub, i) ==
    /\ i >= 1
    /\ i + Len(sub) - 1 <= Len(s)
    /\ \A j \in 1..Len(sub) : s[i + j - 1] = sub[j]

\* sub in s
Contains(s, sub) == \E i \in 1..(Len(s) - Len(sub) + 1) : StartsAt(s, sub, i)

\* any(word in s for word in words)
ContainsAny(s, words) == \E k \in 1..Len(words) : Contains(s, words[k])

\* str.strip()
Strip(s) ==
    LET keep == {i \in 1..Len(s) : s[i] \notin SpaceSet}
    IN  IF keep = {} THEN <<>>
        ELSE LET a == CHOOSE i \in keep : \A j \in keep : i <= j
                 b == CHOOSE i \in keep : \A j \in keep : j <= i
             IN  SubSeq(s, a, b)

(***************************************************************************)
(* The strings of the model.                                               *)
(***************************************************************************)
\* the string "db.users.find({'user_id': {'$ne': '$user_id'}})"
QSelfCompare ==
    <<"d", "b", ".", "u", "s", "e", "r", "s", ".", "f", "i", "n", "d", "(", "{", "'", "u", "s", "e", "r", "_", "i", "d", "'", ":", " ", "{", "'", "$", "n", "e", "'", ":", " ", "'", "$", "u", "s", "e", "r", "_", "i", "d", "'", "}", "}", ")">>
\* the string "db.sessions.count({'invalid_field': true})"
QCount ==
    <<"d", "b", ".", "s", "e", "s", "s", "i", "o", "n", "s", ".", "c", "o", "u", "n", "t", "(", "{", "'", "i", "n", "v", "a", "l", "i", "d", "_", "f", "i", "e", "l", "d", "'", ":", " ", "t", "r", "u", "e", "}", ")">>
\* the string 'db.s.COUNT({})'
QCountUpper ==
    <<"d", "b", ".", "s", ".", "C", "O", "U", "N", "T", "(", "{", "}", ")">>
\* the string "db.users.find({'last_active': {'$gte': 'today'}})"
QFind ==
    <<"d", "b", ".", "u", "s", "e", "r", "s", ".", "f", "i", "n", "d", "(", "{", "'", "l", "a", "s", "t", "_", "a", "c", "t", "i", "v", "e", "'", ":", " ", "{", "'", "$", "g", "t", "e", "'", ":", " ", "'", "t", "o", "d", "a", "y", "'", "}", "}", ")">>
\* the string "db.c.find({'$where': 'Qty != qty'})"
QFieldEqField ==
    <<"d", "b", ".", "c", ".", "f", "i", "n", "d", "(", "{", "'", "$", "w", "h", "e", "r", "e", "'", ":", " ", "'", "Q", "t", "y", " ", "!", "=", " ", "q", "t", "y", "'", "}", ")">>
\* the string 'count == 0 AND exists'
QCountZeroExists ==
    <<"c", "o", "u", "n", "t", " ", "=", "=", " ", "0", " ", "A", "N", "D", " ", "e", "x", "i", "s", "t", "s">>
\* the string "db.c.find('n >  99999999')"
QHugeBound ==
    <<"d", "b", ".", "c", ".", "f", "i", "n", "d", "(", "'", "n", " ", ">", " ", " ", "9", "9", "9", "9", "9", "9", "9", "9", "'", ")">>
\* the string "db.c.aggregate([{'$match': { }}])"
QEmptyMatch ==
    <<"d", "b", ".", "c", ".", "a", "g", "g", "r", "e", "g", "a", "t", "e", "(", "[", "{", "'", "$", "m", "a", "t", "c", "h", "'", ":", " ", "{", " ", "}", "}", "]", ")">>
\* the string "db.t.aggregate([{'$group': {'_id': '$user_id'}}])"
QGroupUser ==
    <<"d", "b", ".", "t", ".", "a", "g", "g", "r", "e", "g", "a", "t", "e", "(", "[", "{", "'", "$", "g", "r", "o", "u", "p", "'", ":", " ", "{", "'", "_", "i", "d", "'", ":", " ", "'", "$", "u", "s", "e", "r", "_", "i", "d", "'", "}", "}", "]", ")">>
\* the string "db.u.aggregate([{'$group': {'_id': null}}])"
QGroupNull ==
    <<"d", "b", ".", "u", ".", "a", "g", "g", "r", "e", "g", "a", "t", "e", "(", "[", "{", "'", "$", "g", "r", "o", "u", "p", "'", ":", " ", "{", "'", "_", "i", "d", "'", ":", " ", "n", "u", "l", "l", "}", "}", "]", ")">>
\* the string '\ud65c\uc131 \uc0ac\uc6a9\uc790 \uc218 \uacc4\uc0b0'
TActiveUsers ==
    <<"U+D65C", "U+C131", " ", "U+C0AC", "U+C6A9", "U+C790", " ", "U+C218", " ", "U+ACC4", "U+C0B0">>
\* the string 'Growth RATE'
TGrowthRate ==
    <<"G", "r", "o", "w", "t", "h", " ", "R", "A", "T", "E">>
\* the string '\uc5f0\uacb0 \ube44\uc728'
TOperatorRatio ==
    <<"U+C5F0", "U+ACB0", " ", "U+BE44", "U+C728">>
\* the string 'active_users'
KActiveUsers ==
    <<"a", "c", "t", "i", "v", "e", "_", "u", "s", "e", "r", "s">>
\* the string 'user_count'
KUserCount ==
    <<"u", "s", "e", "r", "_", "c", "o", "u", "n", "t">>
\* the string 'invalid_rate'
KInvalidRate ==
    <<"i", "n", "v", "a", "l", "i", "d", "_", "r", "a", "t", "e">>
\* the string 'x'
KX ==
    <<"x">>
\* the string 'Ratio'
KRatioUpper ==
    <<"R", "a", "t", "i", "o">>
\* the string 'Count'
KCountUpper ==
    <<"C", "o", "u", "n", "t">>
\* the string 'status'
KStatus ==
    <<"s", "t", "a", "t", "u", "s">>
\* the string 'error'
KError ==
    <<"e", "r", "r", "o", "r">>
\* the string 'message'
KMessage ==
    <<"m", "e", "s", "s", "a", "g", "e">>
\* the string ''
SEmpty ==
    <<>>
\* the string ' \t'
SBlank ==
    <<" ", "\t">>
\* the string 'ok'
SOk ==
    <<"o", "k">>
\* the string ' OK '
SOkPadded ==
    <<" ", "O", "K", " ">>
\* the string 'Error: x'
SErrorMsg ==
    <<"E", "r", "r", "o", "r", ":", " ", "x">>
\* the string 'NULL'
SNullUpper ==
    <<"N", "U", "L", "L">>
\* the string 'it failed'
SFailed ==
    <<"i", "t", " ", "f", "a", "i", "l", "e", "d">>
\* the string 'an Exception'
SException ==
    <<"a", "n", " ", "E", "x", "c", "e", "p", "t", "i", "o", "n">>
\* the string 'success'
SSuccess ==
    <<"s", "u", "c", "c", "e", "s", "s">>
\* the string 'error'
SErrorWord ==
    <<"e", "r", "r", "o", "r">>
\* the string 'Field not found'
SFieldNotFound ==
    <<"F", "i", "e", "l", "d", " ", "n", "o", "t", " ", "f", "o", "u", "n", "d">>
\* the string 'count'
SCountWord ==
    <<"c", "o", "u", "n", "t">>
\* the string '\uace0\uac1d \uc0dd\uc560\uac00\uce58(LTV) \ubd84\uc11d'
TLifetimeValue ==
    <<"U+ACE0", "U+AC1D", " ", "U+C0DD", "U+C560", "U+AC00", "U+CE58", "(", "L", "T", "V", ")", " ", "U+BD84", "U+C11D">>
\* the string "db.users.find({'id': {'$ne': '$id'}})"
QAttempt1 ==
    <<"d", "b", ".", "u", "s", "e", "r", "s", ".", "f", "i", "n", "d", "(", "{", "'", "i", "d", "'", ":", " ", "{", "'", "$", "n", "e", "'", ":", " ", "'", "$", "i", "d", "'", "}", "}", ")">>
\* the string "db.users.aggregate([{'$group': {'_id': null, 'avg_ltv': {'$avg': '$revenue'}}}])"
QAttempt2 ==
    <<"d", "b", ".", "u", "s", "e", "r", "s", ".", "a", "g", "g", "r", "e", "g", "a", "t", "e", "(", "[", "{", "'", "$", "g", "r", "o", "u", "p", "'", ":", " ", "{", "'", "_", "i", "d", "'", ":", " ", "n", "u", "l", "l", ",", " ", "'", "a", "v", "g", "_", "l", "t", "v", "'", ":", " ", "{", "'", "$", "a", "v", "g", "'", ":", " ", "'", "$", "r", "e", "v", "e", "n", "u", "e", "'", "}", "}", "}", "]", ")">>
\* the string "db.users.aggregate([{'$group': {'_id': null, 'avg_ltv': {'$avg': '$lifetime_value'}}}])"
QAttempt3Users ==
    <<"d", "b", ".", "u", "s", "e", "r", "s", ".", "a", "g", "g", "r", "e", "g", "a", "t", "e", "(", "[", "{", "'", "$", "g", "r", "o", "u", "p", "'", ":", " ", "{", "'", "_", "i", "d", "'", ":", " ", "n", "u", "l", "l", ",", " ", "'", "a", "v", "g", "_", "l", "t", "v", "'", ":", " ", "{", "'", "$", "a", "v", "g", "'", ":", " ", "'", "$", "l", "i", "f", "e", "t", "i", "m", "e", "_", "v", "a", "l", "u", "e", "'", "}", "}", "}", "]", ")">>
\* the string "db.transactions.aggregate([{'$group': {'_id': '$user_id', 'total_spent': {'$sum': '$amount'}}}])"
QAttempt3Transactions ==
    <<"d", "b", ".", "t", "r", "a", "n", "s", "a", "c", "t", "i", "o", "n", "s", ".", "a", "g", "g", "r", "e", "g", "a", "t", "e", "(", "[", "{", "'", "$", "g", "r", "o", "u", "p", "'", ":", " ", "{", "'", "_", "i", "d", "'", ":", " ", "'", "$", "u", "s", "e", "r", "_", "i", "d", "'", ",", " ", "'", "t", "o", "t", "a", "l", "_", "s", "p", "e", "n", "t", "'", ":", " ", "{", "'", "$", "s", "u", "m", "'", ":", " ", "'", "$", "a", "m", "o", "u", "n", "t", "'", "}", "}", "}", "]", ")">>
\* the string 'ltv'
KLtv ==
    <<"l", "t", "v">>
\* the string 'average_ltv'
KAverageLtv ==
    <<"a", "v", "e", "r", "a", "g", "e", "_", "l", "t", "v">>
\* the string 'median_ltv'
KMedianLtv ==
    <<"m", "e", "d", "i", "a", "n", "_", "l", "t", "v">>
\* the string 'total_customers'
KTotalCustomers ==
    <<"t", "o", "t", "a", "l", "_", "c", "u", "s", "t", "o", "m", "e", "r", "s">>
\* the string 'execution_time'
KExecutionTime ==
    <<"e", "x", "e", "c", "u", "t", "i", "o", "n", "_", "t", "i", "m", "e">>

(***************************************************************************)
(* Python values.  cls is the Python type; a float that is not finite has  *)
(* fp "nan", "inf" or "-inf"; a finite number is hi + lo/1000 with         *)
(* 0 <= lo < 1000; text is the content of a str; items are the elements of *)
(* a list, or the (key, val) pairs of a dict in insertion order.           *)
(***************************************************************************)
PyValue(c, f, h, l, t, it) ==
    [cls |-> c, fp |-> f, hi |-> h, lo |-> l, text |-> t, items |-> it]

PyNone == PyValue("NoneType", "fin", 0, 0, <<>>, <<>>)

PyBool(b) == PyValue("bool", "fin", IF b THEN 1 ELSE 0, 0, <<>>, <<>>)

PyInt(n) == PyValue("int", "fin", n, 0, <<>>, <<>>)

PyFloat(h, l) == PyValue("float", "fin", h, l, <<>>, <<>>)

PyNaN == PyValue("float", "nan", 0, 0, <<>>, <<>>)

PyInf == PyValue("float", "inf", 0, 0, <<>>, <<>>)

PyNegInf == PyValue("float", "-inf", 0, 0, <<>>, <<>>)

PyStr(s) == PyValue("str", "fin", 0, 0, s, <<>>)

PyList(it) == PyValue("list", "fin", 0, 0, <<>>, it)

PyDict(it) == PyValue("dict", "fin", 0, 0, <<>>, it)

Item(k, v) == [key |-> k, val |-> v]

\* isinstance(v, (int, float)); a bool is an int
IsNumber(v) == v.cls \in {"bool", "int", "float"}

\* v < 0, for a number
LtZero(v) == v.fp = "-inf" \/ (v.fp = "fin" /\ v.hi < 0)

\* v > k, for a number and an integer k
GtInt(v, k) == v.fp = "inf" \/ (v.fp = "fin" /\ (v.hi > k \/ (v.hi = k /\ v.lo > 0)))

\* np.isnan(v) or np.isinf(v)
IsNanOrInf(v) == v.fp # "fin"

Abs(x) == IF x < 0 THEN -x ELSE x

\* not value: None, an empty container or str, zero, False
IsFalsy(v) ==
    CASE v.cls = "NoneType" -> TRUE
      [] v.cls \in {"list", "dict"} -> Len(v.items) = 0
      [] v.cls = "str" -> Len(v.text) = 0
      [] OTHER -> v.fp = "fin" /\ v.hi = 0 /\ v.lo = 0

\* d.get(k): the value under key k, None when d has no such key
DictGet(d, k) ==
    LET hit == {i \in 1..Len(d.items) : d.items[i].key = k}
    IN  IF hit = {} THEN PyNone ELSE d.items[CHOOSE i \in hit : TRUE].val

\* k in d
DictHas(d, k) == \E i \in 1..Len(d.items) : d.items[i].key = k

(***************************************************************************)
(* repr() and str() of a value, as str(calculation_results) builds it.     *)
(***************************************************************************)
RECURSIVE Digits(_)
\* str(n) for an int n >= 0
Digits(n) == IF n < 10 THEN <<DigitChars[n + 1]>>
             ELSE Digits(n \div 10) \o <<DigitChars[(n % 10) + 1]>>

\* the decimals of lo thousandths, as repr prints them: no trailing zero but one
Decimals(l) ==
    IF l % 100 = 0 THEN <<DigitChars[(l \div 100) + 1]>>
    ELSE IF l % 10 = 0
         THEN <<DigitChars[(l \div 100) + 1], DigitChars[((l \div 10) % 10) + 1]>>
         ELSE <<DigitChars[(l \div 100) + 1], DigitChars[((l \div 10) % 10) + 1],
                DigitChars[(l % 10) + 1]>>

\* repr of a finite number
ReprNumber(v) ==
    LET neg == v.hi < 0
        ah == IF ~neg THEN v.hi ELSE IF v.lo = 0 THEN -v.hi ELSE -v.hi - 1
        al == IF ~neg \/ v.lo = 0 THEN v.lo ELSE 1000 - v.lo
        sign == IF neg THEN <<"-">> ELSE <<>>
    IN  IF v.cls = "float" THEN sign \o Digits(ah) \o <<".">> \o Decimals(al)
        ELSE sign \o Digits(ah)

RECURSIVE ReprText(_, _)
\* the characters of a str as repr escapes them, from index i on (the strings of
\* the model hold no quote and no backslash)
ReprText(s, i) ==
    IF i > Len(s) THEN <<>>
    ELSE (CASE s[i] = "\t" -> <<"\\", "t">>
            [] s[i] = "\n" -> <<"\\", "n">>
            [] s[i] = "\r" -> <<"\\", "r">>
            [] OTHER -> <<s[i]>>) \o ReprText(s, i + 1)

RECURSIVE Repr(_)
RECURSIVE ReprJoin(_, _, _)
\* ", ".join of the reprs of items[i..], each a value or a "key: val" pair
ReprJoin(items, i, pairs) ==
    IF i > Len(items) THEN <<>>
    ELSE LET one == IF pairs
                    THEN <<"'">> \o ReprText(items[i].key, 1) \o <<"'", ":", " ">> \o Repr(items[i].val)
                    ELSE Repr(items[i])
         IN  one \o (IF i < Len(items) THEN <<",", " ">> ELSE <<>>)
                 \o ReprJoin(items, i + 1, pairs)

Repr(v) ==
    CASE v.cls = "NoneType" -> <<"N", "o", "n", "e">>
      [] v.cls = "bool" -> IF v.hi = 1 THEN <<"T", "r", "u", "e">>
                           ELSE <<"F", "a", "l", "s", "e">>
      [] v.cls = "str" -> <<"'">> \o ReprText(v.text, 1) \o <<"'">>
      [] v.cls = "list" -> <<"[">> \o ReprJoin(v.items, 1, FALSE) \o <<"]">>
      [] v.cls = "dict" -> <<"{">> \o ReprJoin(v.items, 1, TRUE) \o <<"}">>
      [] v.fp = "nan" -> <<"n", "a", "n">>
      [] v.fp = "inf" -> <<"i", "n", "f">>
      [] v.fp = "-inf" -> <<"-", "i", "n", "f">>
      [] OTHER -> ReprNumber(v)

(***************************************************************************)
(* The regular expressions of logical_error_patterns, each as the          *)
(* existence of a match that re.search(pattern, query, re.IGNORECASE)      *)
(* looks for.                                                              *)
(***************************************************************************)
RECURSIVE SkipForward(_, _, _)
\* the first index >= i of s whose character is not in S, Len(s) + 1 when none
SkipForward(s, i, S) ==
    IF i > Len(s) \/ s[i] \notin S THEN i ELSE SkipForward(s, i + 1, S)

RECURSIVE SkipBackward(_, _, _)
\* the last index <= i of s whose character is not in S, 0 when none
SkipBackward(s, i, S) ==
    IF i < 1 \/ s[i] \notin S THEN i ELSE SkipBackward(s, i - 1, S)

\* "." matches every character of s[a..b]: none is a line break
DotStar(s, a, b) == \A j \in a..b : s[j] # "\n"

RECURSIVE ChainFrom(_, _, _, _)
\* ".*" parts[k] ".*" parts[k+1] ... matches s from index from on
ChainFrom(s, parts, k, from) ==
    IF k > Len(parts) THEN TRUE
    ELSE \E i \in from..Len(s) :
            /\ StartsAt(s, parts[k], i)
            /\ DotStar(s, from, i - 1)
            /\ ChainFrom(s, parts, k + 1, i + Len(parts[k]))

\* parts[1] ".*" parts[2] ".*" ... is found somewhere in s
ChainSearch(s, parts) ==
    \E i \in 1..Len(s) :
        StartsAt(s, parts[1], i) /\ ChainFrom(s, parts, 2, i + Len(parts[1]))

\* r"(\w+)\s*[!=<>]+\s*\1": a word, operators, the same word again.  The
\* operators of a match are a maximal run s[p..r]; the word ends at e, the last
\* character before the run that is no space, and is repeated from q, the first
\* character after the run that is no space.
MatchSameField(query) ==
    LET s == Lower(query)
    IN  \E p \in 1..Len(s) :
            /\ s[p] \in OpSet
            /\ (p = 1 \/ s[p - 1] \notin OpSet)
            /\ LET r == SkipForward(s, p, OpSet) - 1
                   e == SkipBackward(s, p - 1, SpaceSet)
                   q == SkipForward(s, r + 1, SpaceSet)
               IN  \E n \in 1..e :
                      /\ q + n - 1 <= Len(s)
                      /\ \A j \in 0..(n - 1) :
                            s[e - j] \in WordSet /\ s[e - j] = s[q + n - 1 - j]

\* r"count.*==.*0.*AND.*exists"
MatchCountZeroExists(query) ==
    ChainSearch(Lower(query),
                << <<"c", "o", "u", "n", "t">>, <<"=", "=">>, <<"0">>,
                   <<"a", "n", "d">>, <<"e", "x", "i", "s", "t", "s">> >>)

\* r">\s*9{8,}"
MatchHugeNumber(query) ==
    \E i \in 1..Len(query) :
        /\ query[i] = ">"
        /\ StartsAt(query, <<"9", "9", "9", "9", "9", "9", "9", "9">>,
                    SkipForward(query, i + 1, SpaceSet))

\* r"\$match.*\{\s*\}"
MatchEmptyMatch(query) ==
    LET s == Lower(query)
        m == <<"$", "m", "a", "t", "c", "h">>
    IN  \E i \in 1..Len(s) :
            /\ StartsAt(s, m, i)
            /\ \E j \in (i + Len(m))..Len(s) :
                  /\ s[j] = "{"
                  /\ DotStar(s, i + Len(m), j - 1)
                  /\ LET c == SkipForward(s, j + 1, SpaceSet)
                     IN  c <= Len(s) /\ s[c] = "}"

\* r"\$group.*_id.*_id"
MatchDuplicateGroup(query) ==
    ChainSearch(Lower(query),
                << <<"$", "g", "r", "o", "u", "p">>, <<"_", "i", "d">>,
                   <<"_", "i", "d">> >>)

(***************************************************************************)
(* UniversalMongoDBEvaluator.  A rate is the fraction [n, d] the code      *)
(* divides (d > 0); a threshold is in thousandths.                         *)
(***************************************************************************)
Frac(a, b) == [n |-> a, d |-> b]

ThresholdKeys == {"semantic_error", "execution_success", "empty_result", "accuracy"}

DefaultThresholds ==
    [semantic_error |-> 100, execution_success |-> 800,
     empty_result |-> 200, accuracy |-> 900]

\* __init__: thresholds or the defaults; given is [some, v], v a mapping
InitThresholds(given) ==
    IF given.some /\ DOMAIN given.v # {} THEN given.v ELSE DefaultThresholds

\* the words of the two keyword lists
RateWordsOfQuery ==
    << <<"U+BE44", "U+C728">>, <<"U+C728">>,
       <<"p", "e", "r", "c", "e", "n", "t">>, <<"r", "a", "t", "e">> >>

RateWordsOfKey ==
    << <<"r", "a", "t", "e">>, <<"r", "a", "t", "i", "o">>,
       <<"U+BE44", "U+C728">>, <<"U+C728">> >>

ErrorWords ==
    << <<"e", "r", "r", "o", "r">>, <<"e", "x", "c", "e", "p", "t", "i", "o", "n">>,
       <<"f", "a", "i", "l", "e", "d">>, <<"n", "u", "l", "l">> >>

CountWord == <<"c", "o", "u", "n", "t">>

\* calculation_results.items() / .values() raise AttributeError on a non-dict
ItemsRaises(results) == results.cls # "dict"

\* len(calculation_results) raises TypeError on a number
LenRaises(results) == results.cls \in {"int", "float", "bool"}

\* a faulty _check_result_query_mismatch: "count" sought without .lower()
check_result_query_mismatch_case_sensitive(query, query_text, results) ==
    \/ /\ Contains(query, CountWord)
       /\ \E i \in 1..Len(results.items) :
             IsNumber(results.items[i].val) /\ LtZero(results.items[i].val)
    \/ /\ ContainsAny(Lower(query_text), RateWordsOfQuery)
       /\ \E i \in 1..Len(results.items) :
             IsNumber(results.items[i].val) /\ GtInt(results.items[i].val, 100)

\* _check_result_query_mismatch
check_result_query_mismatch(query, query_text, results) ==
    \/ /\ Contains(Lower(query), CountWord)
       /\ \E i \in 1..Len(results.items) :
             IsNumber(results.items[i].val) /\ LtZero(results.items[i].val)
    \/ /\ ContainsAny(Lower(query_text), RateWordsOfQuery)
       /\ \E i \in 1..Len(results.items) :
             IsNumber(results.items[i].val) /\ GtInt(results.items[i].val, 100)

check_result_query_mismatch_raises(query, query_text, results) ==
    /\ ItemsRaises(results)
    /\ \/ Contains(Lower(query), CountWord)
       \/ ContainsAny(Lower(query_text), RateWordsOfQuery)

\* the loop over logical_error_patterns
MatchesLogicalErrorPattern(query) ==
    \/ MatchSameField(query)
    \/ MatchCountZeroExists(query)
    \/ MatchHugeNumber(query)
    \/ MatchEmptyMatch(query)
    \/ MatchDuplicateGroup(query)

\* _has_semantic_error
has_semantic_error(query, query_text, results) ==
    \/ MatchesLogicalErrorPattern(query)
    \/ check_result_query_mismatch(query, query_text, results)

\* it raises when no pattern matched and the cross-check raises
has_semantic_error_raises(query, query_text, results) ==
    /\ check_result_query_mismatch_raises(query, query_text, results)
    /\ ~MatchesLogicalErrorPattern(query)

RECURSIVE CountSemanticErrors(_, _, _, _)
\* the loop of _calculate_semantic_error_rate, from query i on
CountSemanticErrors(queries, i, query_text, results) ==
    IF i > Len(queries) THEN 0
    ELSE (IF has_semantic_error(queries[i].text, query_text, results) THEN 1 ELSE 0)
            + CountSemanticErrors(queries, i + 1, query_text, results)

\* _calculate_semantic_error_rate
calculate_semantic_error_rate(queries, query_text, results) ==
    IF IsFalsy(queries) THEN Frac(0, 1)
    ELSE Frac(CountSemanticErrors(queries.items, 1, query_text, results),
              Len(queries.items))

calculate_semantic_error_rate_raises(queries, query_text, results) ==
    /\ ~IsFalsy(queries)
    /\ \E i \in 1..Len(queries.items) :
          has_semantic_error_raises(queries.items[i].text, query_text, results)

\* a faulty success test: "and" in place of "or"
LogSucceeded_and(log) ==
    /\ LET st == DictGet(log, KStatus) IN st.cls = "str" /\ st.text = SSuccess
    /\ DictGet(log, KError).cls = "NoneType"

\* a faulty success test: the status alone decides
LogSucceeded_status_only(log) ==
    LET st == DictGet(log, KStatus) IN st.cls = "str" /\ st.text = SSuccess

\* log.get("status") == "success" or log.get("error") is None
LogSucceeded(log) ==
    \/ LET st == DictGet(log, KStatus) IN st.cls = "str" /\ st.text = SSuccess
    \/ DictGet(log, KError).cls = "NoneType"

RECURSIVE CountSuccessful(_, _)
CountSuccessful(logs, i) ==
    IF i > Len(logs) THEN 0
    ELSE (IF LogSucceeded(logs[i]) THEN 1 ELSE 0) + CountSuccessful(logs, i + 1)

\* _calculate_execution_success_rate
calculate_execution_success_rate(logs) ==
    IF IsFalsy(logs) THEN Frac(1, 1)
    ELSE Frac(CountSuccessful(logs.items, 1), Len(logs.items))

\* a faulty _is_empty_or_invalid_result: the error words sought without .lower()
is_empty_or_invalid_result_case_sensitive(value) ==
    \/ value.cls = "NoneType"
    \/ value.cls \in {"list", "dict"} /\ Len(value.items) = 0
    \/ value.cls = "str" /\ Strip(value.text) = <<>>
    \/ IsNumber(value) /\ IsNanOrInf(value)
    \/ value.cls = "str" /\ ContainsAny(value.text, ErrorWords)

\* _is_empty_or_invalid_result
is_empty_or_invalid_result(value) ==
    \/ value.cls = "NoneType"
    \/ value.cls \in {"list", "dict"} /\ Len(value.items) = 0
    \/ value.cls = "str" /\ Strip(value.text) = <<>>
    \/ IsNumber(value) /\ IsNanOrInf(value)
    \/ value.cls = "str" /\ ContainsAny(Lower(value.text), ErrorWords)

RECURSIVE CountEmpty(_, _)
CountEmpty(items, i) ==
    IF i > Len(items) THEN 0
    ELSE (IF is_empty_or_invalid_result(items[i].val) THEN 1 ELSE 0)
            + CountEmpty(items, i + 1)

\* _calculate_empty_result_rate
calculate_empty_result_rate(results) ==
    IF IsFalsy(results) THEN Frac(1, 1)
    ELSE Frac(CountEmpty(results.items, 1), Len(results.items))

calculate_empty_result_rate_raises(results) ==
    ~IsFalsy(results) /\ ItemsRaises(results)

\* a faulty tolerance test: "<" in place of "<="
WithinTolerance_strict(c, e) ==
    /\ c.fp = "fin" /\ e.fp = "fin"
    /\ Abs(c.hi - e.hi) <= 1
    /\ Abs((c.hi - e.hi) * 1000 + (c.lo - e.lo)) < 10

\* abs(calculated - expected) <= tolerance, tolerance = 0.01 = 10 thousandths
WithinTolerance(c, e) ==
    /\ c.fp = "fin" /\ e.fp = "fin"
    /\ Abs(c.hi - e.hi) <= 1
    /\ Abs((c.hi - e.hi) * 1000 + (c.lo - e.lo)) <= 10

RECURSIVE PyEq(_, _)
\* Python's a == b
PyEq(a, b) ==
    CASE IsNumber(a) /\ IsNumber(b) ->
            a.fp = b.fp /\ a.fp # "nan" /\ a.hi = b.hi /\ a.lo = b.lo
      [] a.cls # b.cls -> FALSE
      [] a.cls = "str" -> a.text = b.text
      [] a.cls = "list" ->
            /\ Len(a.items) = Len(b.items)
            /\ \A i \in 1..Len(a.items) : PyEq(a.items[i], b.items[i])
      [] a.cls = "dict" ->
            /\ Len(a.items) = Len(b.items)
            /\ \A i \in 1..Len(a.items) :
                  /\ DictHas(b, a.items[i].key)
                  /\ PyEq(a.items[i].val, DictGet(b, a.items[i].key))
      [] OTHER -> TRUE

\* _values_match
values_match(calculated, expected) ==
    IF calculated.cls # expected.cls /\ ~(IsNumber(calculated) /\ IsNumber(expected))
    THEN FALSE
    ELSE IF IsNumber(calculated) /\ IsNumber(expected)
         THEN WithinTolerance(calculated, expected)
         ELSE IF calculated.cls = "str" /\ expected.cls = "str"
              THEN Lower(Strip(calculated.text)) = Lower(Strip(expected.text))
              ELSE PyEq(calculated, expected)

RECURSIVE CountNegative(_, _)
\* the "value < 0" penalties of the loop over numeric_results
CountNegative(items, i) ==
    IF i > Len(items) THEN 0
    ELSE (IF IsNumber(items[i].val) /\ LtZero(items[i].val) THEN 1 ELSE 0)
            + CountNegative(items, i + 1)

RECURSIVE CountHuge(_, _)
\* the "value > 10000000" penalties of the loop over numeric_results
CountHuge(items, i) ==
    IF i > Len(items) THEN 0
    ELSE (IF IsNumber(items[i].val) /\ GtInt(items[i].val, 10000000) THEN 1 ELSE 0)
            + CountHuge(items, i + 1)

RECURSIVE CountBadRate_above(_, _)
\* a faulty rate check: only "value > 100", the negative rates not penalised
CountBadRate_above(items, i) ==
    IF i > Len(items) THEN 0
    ELSE (IF /\ ContainsAny(Lower(items[i].key), RateWordsOfKey)
             /\ IsNumber(items[i].val)
             /\ GtInt(items[i].val, 100)
          THEN 1 ELSE 0)
            + CountBadRate_above(items, i + 1)

RECURSIVE CountBadRate(_, _)
\* the penalties of the loop over the keys that name a rate
CountBadRate(items, i) ==
    IF i > Len(items) THEN 0
    ELSE (IF /\ ContainsAny(Lower(items[i].key), RateWordsOfKey)
             /\ IsNumber(items[i].val)
             /\ (LtZero(items[i].val) \/ GtInt(items[i].val, 100))
          THEN 1 ELSE 0)
            + CountBadRate(items, i + 1)

\* a faulty _calculate_consistency_score: the score returned without max(0.0, .)
consistency_score_unclamped(results) ==
    1000 - 200 * (IF Contains(Repr(results), CountWord)
                  THEN CountNegative(results.items, 1) ELSE 0)
         - 100 * CountHuge(results.items, 1)
         - 300 * CountBadRate(results.items, 1)

\* _calculate_consistency_score, in thousandths before the division
consistency_score(results) ==
    LET counted == Contains(Repr(results), CountWord)
        a == IF counted THEN CountNegative(results.items, 1) ELSE 0
        b == CountHuge(results.items, 1)
        c == CountBadRate(results.items, 1)
        score == 1000 - 200 * a - 100 * b - 300 * c
    IN  IF score < 0 THEN 0 ELSE score

\* a faulty _calculate_consistency_score: every negative number penalised, whether
\* or not the text of the results contains "count"
calculate_consistency_score_any_negative(results) ==
    LET score == 1000 - 200 * CountNegative(results.items, 1)
                      - 100 * CountHuge(results.items, 1)
                      - 300 * CountBadRate(results.items, 1)
    IN  Frac(IF score < 0 THEN 0 ELSE score, 1000)

calculate_consistency_score(results) == Frac(consistency_score(results), 1000)

RECURSIVE CountCompared(_, _, _)
CountCompared(items, i, truth) ==
    IF i > Len(items) THEN 0
    ELSE (IF DictHas(truth, items[i].key) THEN 1 ELSE 0)
            + CountCompared(items, i + 1, truth)

RECURSIVE CountCorrect(_, _, _)
CountCorrect(items, i, truth) ==
    IF i > Len(items) THEN 0
    ELSE (IF /\ DictHas(truth, items[i].key)
             /\ values_match(items[i].val, DictGet(truth, items[i].key))
          THEN 1 ELSE 0)
            + CountCorrect(items, i + 1, truth)

\* _calculate_accuracy_rate
calculate_accuracy_rate(results, truth) ==
    IF truth.cls = "NoneType" THEN calculate_consistency_score(results)
    ELSE LET total == CountCompared(results.items, 1, truth)
         IN  IF total > 0 THEN Frac(CountCorrect(results.items, 1, truth), total)
             ELSE Frac(1, 1)

calculate_accuracy_rate_raises(results, truth) == ItemsRaises(results)

\* rate <= threshold and rate >= threshold, the threshold in thousandths
RateLe(rate, t) == rate.n * 1000 <= t * rate.d

RateGe(rate, t) == rate.n * 1000 >= t * rate.d

\* a faulty _determine_overall_pass: the four comparisons made strict
determine_overall_pass_strict(th, semantic, execution, empty, accuracy) ==
    /\ semantic.n * 1000 < th.semantic_error * semantic.d
    /\ execution.n * 1000 > th.execution_success * execution.d
    /\ empty.n * 1000 < th.empty_result * empty.d
    /\ accuracy.n * 1000 > th.accuracy * accuracy.d

\* _determine_overall_pass
determine_overall_pass(th, semantic, execution, empty, accuracy) ==
    LET semantic_pass == RateLe(semantic, th.semantic_error)
        execution_pass == RateGe(execution, th.execution_success)
        empty_pass == RateLe(empty, th.empty_result)
        accuracy_pass == RateGe(accuracy, th.accuracy)
    IN  semantic_pass /\ execution_pass /\ empty_pass /\ accuracy_pass

\* self.thresholds[key] raises KeyError on a missing key
determine_overall_pass_raises(th) == ~(ThresholdKeys \subseteq DOMAIN th)

NoMetrics ==
    [semantic_error_rate |-> Frac(0, 1), execution_success_rate |-> Frac(0, 1),
     empty_result_rate |-> Frac(0, 1), accuracy_rate |-> Frac(0, 1),
     overall_pass |-> FALSE]

\* the exception evaluate raises, "" when it returns: the four computations
\* run in order, len() of a number raises TypeError, .items() and .values() of
\* a non-dict AttributeError, a missing threshold key KeyError
evaluate_error(query_text, queries, results, logs, truth, th) ==
    IF calculate_semantic_error_rate_raises(queries, query_text, results)
    THEN "AttributeError"
    ELSE IF calculate_empty_result_rate_raises(results)
    THEN (IF LenRaises(results) THEN "TypeError" ELSE "AttributeError")
    ELSE IF calculate_accuracy_rate_raises(results, truth)
    THEN "AttributeError"
    ELSE IF determine_overall_pass_raises(th) THEN "KeyError" ELSE ""

\* evaluate
evaluate(query_text, queries, results, logs, truth, th) ==
    LET semantic == calculate_semantic_error_rate(queries, query_text, results)
        execution == calculate_execution_success_rate(logs)
        empty == calculate_empty_result_rate(results)
        accuracy == calculate_accuracy_rate(results, truth)
    IN  [semantic_error_rate |-> semantic,
         execution_success_rate |-> execution,
         empty_result_rate |-> empty,
         accuracy_rate |-> accuracy,
         overall_pass |-> determine_overall_pass(th, semantic, execution, empty, accuracy)]

(***************************************************************************)
(* The inputs of a call.                                                   *)
(***************************************************************************)
RECURSIVE SortedSeq(_)
\* the elements of a finite set of integers, in increasing order
SortedSeq(S) ==
    IF S = {} THEN <<>>
    ELSE LET m == CHOOSE x \in S : \A y \in S : x <= y
         IN  <<m>> \o SortedSeq(S \ {m})

\* the lists of at most n elements of the set elems
ListsOver(elems, n) ==
    {PyList(l) : l \in UNION {[1..k -> elems] : k \in 0..n}}

\* the dicts of at most n fields, their keys among keys (in that order), their
\* values in vals
DictsOver(keys, vals, n) ==
    {PyDict([j \in 1..Len(p.ks) |-> Item(keys[p.ks[j]], p.f[p.ks[j]])]) :
        p \in UNION {{[ks |-> SortedSeq(S), f |-> g] : g \in [S -> vals]} :
                        S \in {T \in SUBSET (1..Len(keys)) : Cardinality(T) <= n}}}

Some(x) == [some |-> TRUE, v |-> x]

Nothing == [some |-> FALSE, v |-> <<>>]

\* AnalysisQualityChecker(strict_mode=True).strict_thresholds
StrictThresholds ==
    [semantic_error |-> 50, execution_success |-> 950,
     empty_result |-> 100, accuracy |-> 950]

\* an override whose bounds the rates of short lists can meet exactly
HalfThresholds ==
    [semantic_error |-> 500, execution_success |-> 500,
     empty_result |-> 500, accuracy |-> 800]

\* a state before the call: the record, the reference and the evaluator built
\* from the threshold override
Start(texts, queries, results, logs, truths, overrides) ==
    /\ analysis_query \in texts
    /\ mongodb_queries \in queries
    /\ calculation_results \in results
    /\ execution_logs \in logs
    /\ ground_truth \in truths
    /\ custom_thresholds \in overrides
    /\ thresholds = InitThresholds(custom_thresholds)
    /\ calls = <<>>
    /\ metrics = NoMetrics
    /\ error = ""
    /\ pc = "start"

(***************************************************************************)
(* The calls.                                                              *)
(***************************************************************************)
\* the record and the reference as a tuple
Arguments(text, queries, results, logs, truth) ==
    [analysis_query |-> text, mongodb_queries |-> queries,
     calculation_results |-> results, execution_logs |-> logs, ground_truth |-> truth]

\* the call's effect on metrics, error and pc, for the execution logs it is given;
\* calls gets the arguments, what the call left of them and of the thresholds,
\* and the outcome
Call(logs) ==
    LET err == evaluate_error(analysis_query.text, mongodb_queries,
                              calculation_results, logs, ground_truth, thresholds)
        out == IF err = ""
               THEN evaluate(analysis_query.text, mongodb_queries,
                             calculation_results, logs, ground_truth, thresholds)
               ELSE NoMetrics
    IN  /\ error' = err
        /\ metrics' = out
        /\ pc' = IF err = "" THEN "done" ELSE "raised"
        /\ calls' = Append(calls,
               [given |-> Arguments(analysis_query, mongodb_queries,
                                    calculation_results, logs, ground_truth),
                left |-> Arguments(analysis_query', mongodb_queries',
                                   calculation_results', execution_logs', ground_truth'),
                thresholds |-> thresholds',
                metrics |-> out, error |-> err])

\* a faulty evaluate: it tightens the evaluator's thresholds on every call
Evaluate_calibrating ==
    /\ pc = "start"
    /\ UNCHANGED <<analysis_query, mongodb_queries, calculation_results,
                   execution_logs, ground_truth, custom_thresholds>>
    /\ thresholds' = StrictThresholds
    /\ Call(execution_logs)

\* evaluator.evaluate(analysis_result, ground_truth)
Evaluate ==
    /\ pc = "start"
    /\ UNCHANGED <<analysis_query, mongodb_queries, calculation_results,
                   execution_logs, ground_truth, custom_thresholds, thresholds>>
    /\ Call(execution_logs)

\* quick_evaluate(...): the record gets execution_logs or []
QuickEvaluate ==
    /\ pc = "start"
    /\ UNCHANGED <<analysis_query, mongodb_queries, calculation_results,
                   ground_truth, custom_thresholds, thresholds>>
    /\ LET logs == IF IsFalsy(execution_logs) THEN PyList(<<>>) ELSE execution_logs
       IN  execution_logs' = logs /\ Call(logs)

Next == Evaluate \/ QuickEvaluate

\* the records and references one evaluator is given in turn
SessionResults ==
    {PyDict(<<Item(KUserCount, PyInt(-10))>>), PyDict(<<Item(KX, PyInt(5))>>), PyNone}

SessionTruths == {PyNone, PyDict(<<Item(KUserCount, PyInt(-10))>>)}

\* the caller hands the same evaluator another record and reference, or the same
\* ones again
AnotherRecord ==
    /\ pc \in {"done", "raised"}
    /\ Len(calls) < MaxCalls
    /\ calculation_results' \in SessionResults
    /\ ground_truth' \in SessionTruths
    /\ pc' = "start"
    /\ UNCHANGED <<analysis_query, mongodb_queries, execution_logs,
                   custom_thresholds, thresholds, calls, metrics, error>>

NextSession == Evaluate \/ AnotherRecord

(***************************************************************************)
(* Sample inputs.                                                          *)
(***************************************************************************)
LogSuccess == PyDict(<<Item(KStatus, PyStr(SSuccess))>>)

LogErrorNoKey == PyDict(<<Item(KStatus, PyStr(SErrorWord)), Item(KMessage, PyStr(SFieldNotFound))>>)

LogErrorWithKey == PyDict(<<Item(KStatus, PyStr(SErrorWord)), Item(KError, PyStr(SFieldNotFound))>>)

LogErrorNone == PyDict(<<Item(KStatus, PyStr(SErrorWord)), Item(KError, PyNone)>>)

LogSuccessWithError == PyDict(<<Item(KStatus, PyStr(SSuccess)), Item(KError, PyStr(SFieldNotFound))>>)

LogOnlyError == PyDict(<<Item(KError, PyStr(SFieldNotFound))>>)

LogEmpty == PyDict(<<>>)

LogStatusError == PyDict(<<Item(KStatus, PyStr(SErrorWord))>>)

\* the record, the reference and the thresholds all vary, each over a few values
InitAll ==
    Start({PyStr(TGrowthRate)},
          {PyNone} \cup ListsOver({PyStr(QCount), PyStr(QFind)}, MaxQueries),
          {PyNone} \cup DictsOver(<<KUserCount, KInvalidRate, KRatioUpper>>,
                                  {PyInt(-10), PyNone}, MaxFields),
          {PyNone} \cup ListsOver({LogSuccess, LogErrorWithKey}, MaxLogs),
          {PyNone, PyDict(<<Item(KUserCount, PyInt(-10))>>)},
          {Nothing, Some(HalfThresholds)})

Spec == InitAll /\ [][Next]_vars

\* the execution logs vary
InitLogs ==
    Start({PyStr(TActiveUsers)},
          {PyList(<<>>), PyList(<<PyStr(QFind)>>)},
          {PyDict(<<Item(KX, PyInt(1))>>)},
          {PyNone} \cup ListsOver({LogSuccess, LogErrorNoKey, LogErrorWithKey, LogErrorNone,
                                   LogSuccessWithError, LogOnlyError, LogEmpty,
                                   LogStatusError}, MaxLogs),
          {PyNone},
          {Nothing, Some(StrictThresholds)})

SpecLogs == InitLogs /\ [][Next]_vars

ResultValues ==
    {PyNone, PyInt(-10), PyInt(0), PyInt(10000001), PyFloat(10, 5), PyNaN, PyInf, PyNegInf,
     PyBool(FALSE), PyStr(SEmpty), PyStr(SBlank), PyStr(SOk), PyStr(SErrorMsg),
     PyStr(SNullUpper), PyStr(SFailed), PyStr(SException),
     PyList(<<>>), PyList(<<PyInt(1)>>), PyDict(<<>>), PyDict(<<Item(KX, PyNone)>>)}

\* the values of the results vary
InitResults ==
    Start({PyStr(TActiveUsers)},
          {PyList(<<>>)},
          DictsOver(<<KX, KActiveUsers, KInvalidRate>>, ResultValues, MaxFields),
          {PyNone},
          {PyNone},
          {Nothing})

SpecResults == InitResults /\ [][Next]_vars

ComparedValues ==
    {PyFloat(10, 5), PyFloat(10, 10), PyFloat(10, 20), PyInt(10), PyInt(-10),
     PyStr(SOk), PyNone, PyList(<<PyInt(1)>>)}

ReferenceValues ==
    {PyFloat(10, 0), PyInt(10), PyStr(SOkPadded), PyNone, PyDict(<<Item(KX, PyInt(1))>>)}

\* the results and the reference vary
InitReference ==
    Start({PyStr(TActiveUsers)},
          {PyList(<<>>)},
          DictsOver(<<KX, KUserCount>>, ComparedValues, MaxFields),
          {PyNone},
          DictsOver(<<KX, KUserCount, KActiveUsers>>, ReferenceValues, MaxFields),
          {Nothing})

SpecReference == InitReference /\ [][Next]_vars

ScoredValues ==
    {PyInt(-10), PyInt(100), PyInt(150), PyInt(10000000), PyInt(10000001),
     PyFloat(-1, 500), PyStr(SCountWord)}

\* the results vary and no reference is given
InitConsistency ==
    Start({PyStr(TActiveUsers)},
          {PyList(<<>>)},
          DictsOver(<<KActiveUsers, KUserCount, KInvalidRate, KRatioUpper>>,
                    ScoredValues, MaxFields),
          {PyNone},
          {PyNone},
          {Nothing})

SpecConsistency == InitConsistency /\ [][Next]_vars

QueryPool ==
    {PyStr(QSelfCompare), PyStr(QCount), PyStr(QCountUpper), PyStr(QFind),
     PyStr(QFieldEqField), PyStr(QCountZeroExists), PyStr(QHugeBound),
     PyStr(QEmptyMatch), PyStr(QGroupUser), PyStr(QGroupNull)}

\* the executed queries, the query text and the results vary
InitQueries ==
    Start({PyStr(TActiveUsers), PyStr(TGrowthRate), PyStr(TOperatorRatio)},
          {PyNone} \cup ListsOver(QueryPool, MaxQueries),
          {PyDict(<<>>), PyDict(<<Item(KX, PyInt(5))>>),
           PyDict(<<Item(KActiveUsers, PyInt(-10))>>),
           PyDict(<<Item(KActiveUsers, PyInt(-10)), Item(KInvalidRate, PyInt(150))>>),
           PyDict(<<Item(KX, PyFloat(100, 500)), Item(KActiveUsers, PyStr(SOk))>>)},
          {PyList(<<>>)},
          {PyNone},
          {Nothing})

SpecQueries == InitQueries /\ [][Next]_vars


\* threshold overrides that lack required keys
EmptyThresholds == <<>>

PartialThresholds == [semantic_error |-> 100, accuracy |-> 900]

ThresholdsWithoutAccuracy ==
    [semantic_error |-> 100, execution_success |-> 800, empty_result |-> 200]

\* the threshold override and the kind of the results vary
InitContract ==
    Start({PyStr(TGrowthRate)},
          {PyList(<<>>), PyList(<<PyStr(QFind)>>)},
          {PyDict(<<Item(KX, PyInt(5))>>), PyList(<<PyInt(1)>>), PyList(<<>>),
           PyStr(SOk), PyInt(5), PyInt(0)},
          ListsOver({LogSuccess, LogErrorWithKey}, MaxLogs),
          {PyNone, PyDict(<<Item(KX, PyInt(5))>>)},
          {Nothing, Some(HalfThresholds), Some(EmptyThresholds),
           Some(PartialThresholds), Some(ThresholdsWithoutAccuracy)})

SpecContract == InitContract /\ [][Next]_vars

\* one evaluator, given several records and references in turn
InitSession ==
    Start({PyStr(TActiveUsers)},
          {PyList(<<PyStr(QCount)>>)},
          SessionResults,
          {PyList(<<LogSuccess, LogErrorWithKey>>)},
          SessionTruths,
          {Nothing, Some(HalfThresholds)})

SpecSession == InitSession /\ [][NextSession]_vars

(***************************************************************************)
(* The quality gate of the examples.                                       *)
(***************************************************************************)
\* analyze_with_quality_gate(query, max_attempts=3)
max_attempts == 3

\* simulate_analysis_attempt(query, attempt)
simulate_analysis_attempt(attempt) ==
    IF attempt = 0
    THEN [queries |-> PyList(<<PyStr(QAttempt1)>>),
          results |-> PyDict(<<Item(KLtv, PyInt(-100))>>),
          execution_info |-> PyList(<<LogStatusError>>)]
    ELSE IF attempt = 1
    THEN [queries |-> PyList(<<PyStr(QAttempt2)>>),
          results |-> PyDict(<<Item(KLtv, PyNone)>>),
          execution_info |-> PyList(<<LogSuccess>>)]
    ELSE [queries |-> PyList(<<PyStr(QAttempt3Users), PyStr(QAttempt3Transactions)>>),
          results |-> PyDict(<<Item(KAverageLtv, PyFloat(245, 500)),
                               Item(KMedianLtv, PyFloat(180, 0)),
                               Item(KTotalCustomers, PyInt(5420))>>),
          execution_info |->
              PyList(<<PyDict(<<Item(KStatus, PyStr(SSuccess)),
                                Item(KExecutionTime, PyFloat(0, 150))>>),
                       PyDict(<<Item(KStatus, PyStr(SSuccess)),
                                Item(KExecutionTime, PyFloat(0, 230))>>)>>)]

\* the record holds what simulate_analysis_attempt returns for the attempt
IsAttempt(attempt) ==
    LET sim == simulate_analysis_attempt(attempt)
    IN  /\ mongodb_queries = sim.queries
        /\ calculation_results = sim.results
        /\ execution_logs = sim.execution_info

\* the loop of analyze_with_quality_gate goes on: the strict checker did not
\* answer PASS and the attempt was not the last one
NextAttempt ==
    /\ pc = "done"
    /\ ~metrics.overall_pass
    /\ custom_thresholds = Some(StrictThresholds)
    /\ \E attempt \in 0..(max_attempts - 2) :
          /\ IsAttempt(attempt)
          /\ LET sim == simulate_analysis_attempt(attempt + 1)
             IN  /\ mongodb_queries' = sim.queries
                 /\ calculation_results' = sim.results
                 /\ execution_logs' = sim.execution_info
    /\ pc' = "start"
    /\ UNCHANGED <<analysis_query, ground_truth, custom_thresholds, thresholds,
                   calls, metrics, error>>

NextGate == QuickEvaluate \/ NextAttempt

\* check_analysis_quality is called with the user query, a strict or a default
\* checker, and the queries, results and execution info of the simulated attempts
InitGate ==
    Start({PyStr(TLifetimeValue), PyStr(TActiveUsers), PyStr(TGrowthRate),
           PyStr(TOperatorRatio)},
          {simulate_analysis_attempt(a).queries : a \in 0..(max_attempts - 1)},
          {simulate_analysis_attempt(a).results : a \in 0..(max_attempts - 1)},
          {simulate_analysis_attempt(a).execution_info : a \in 0..(max_attempts - 1)},
          {PyNone},
          {Nothing, Some(StrictThresholds)})

SpecGate == InitGate /\ [][NextGate]_vars
(***************************************************************************)
(* The claims.  Each is stated over the record, the reference and the      *)
(* thresholds of the call and the metrics it returned, in the terms of     *)
(* the specification text rather than through the operators above.         *)
(***************************************************************************)
Returned == pc = "done"

Results == calculation_results.items

\* the indices of the fields of a dict that satisfy P
FieldsWhere(d, P(_, _)) == {i \in 1..Len(d.items) : P(d.items[i].key, d.items[i].val)}

\* two fractions are the same rate
SameRate(r, a, b) == r.d > 0 /\ b > 0 /\ r.n * b = a * r.d

\* a finite number's value in thousandths (for numbers below two million)
Thousandths(v) == v.hi * 1000 + v.lo

Numeric(v) == v.cls \in {"int", "float", "bool"}

\* v < 0: a finite number hi + lo/1000, 0 <= lo < 1000, is negative iff hi is
Negative(v) == Numeric(v) /\ (v.fp = "-inf" \/ (v.fp = "fin" /\ v.hi <= -1))

\* v > k for a small integer k
Exceeds(v, k) == Numeric(v) /\ (v.fp = "inf" \/ (v.fp = "fin" /\ v.hi >= k /\ (v.hi > k \/ v.lo > 0)))

\* C1: overall_pass is true iff semantic_error_rate <= thresholds.semantic_error and
\* execution_success_rate >= thresholds.execution_success and empty_result_rate <=
\* thresholds.empty_result and accuracy_rate >= thresholds.accuracy, all inclusive.
C1_OverallPassIffAllFour ==
    Returned =>
        (metrics.overall_pass <=>
            /\ metrics.semantic_error_rate.n * 1000
                  <= thresholds.semantic_error * metrics.semantic_error_rate.d
            /\ metrics.execution_success_rate.n * 1000
                  >= thresholds.execution_success * metrics.execution_success_rate.d
            /\ metrics.empty_result_rate.n * 1000
                  <= thresholds.empty_result * metrics.empty_result_rate.d
            /\ metrics.accuracy_rate.n * 1000
                  >= thresholds.accuracy * metrics.accuracy_rate.d)

\* a call returned with exactly one rate outside its bound (the empty-result rate),
\* two of the others meeting their bounds exactly, and overall_pass false
C1_Witness ==
    /\ Returned
    /\ thresholds = HalfThresholds
    /\ SameRate(metrics.semantic_error_rate, 1, 2)
    /\ SameRate(metrics.execution_success_rate, 1, 2)
    /\ SameRate(metrics.empty_result_rate, 2, 3)
    /\ SameRate(metrics.accuracy_rate, 1, 1)
    /\ ~metrics.overall_pass

RateInUnitInterval(r) == r.d > 0 /\ 0 <= r.n /\ r.n <= r.d

\* C2: each of the four rates evaluate returns lies in [0.0, 1.0]; the no-reference
\* consistency score is never returned below 0.0 however many penalties stack.
C2_RatesInUnitInterval ==
    Returned =>
        /\ RateInUnitInterval(metrics.semantic_error_rate)
        /\ RateInUnitInterval(metrics.execution_success_rate)
        /\ RateInUnitInterval(metrics.empty_result_rate)
        /\ RateInUnitInterval(metrics.accuracy_rate)

NegativeField(k, v) == Negative(v)

RateKeyNegative(k, v) == Negative(v) /\ ContainsAny(Lower(k), RateWordsOfKey)

\* a call without a reference returned for results whose penalties add up to more
\* than 1.0: three negative fields (0.2 each) named in a "count" mapping, two of
\* them rate fields (0.3 each)
C2_Witness ==
    /\ Returned
    /\ ground_truth = PyNone
    /\ Contains(Repr(calculation_results), CountWord)
    /\ Cardinality(FieldsWhere(calculation_results, NegativeField)) = 3
    /\ Cardinality(FieldsWhere(calculation_results, RateKeyNegative)) = 2
    /\ metrics.accuracy_rate.n = 0

\* word occurs in s, letter case ignored (word is in lower case)
ContainsIgnoringCase(s, word) ==
    \E i \in 1..(Len(s) - Len(word) + 1) :
        \A j \in 1..Len(word) : LowerChar(s[i + j - 1]) = word[j]

\* the log entry's status indicator equals "success"
StatusIsSuccess(log) ==
    \E i \in 1..Len(log.items) :
        /\ log.items[i].key = KStatus
        /\ log.items[i].val = PyStr(SSuccess)

\* the log entry carries an error indicator
HasErrorIndicator(log) ==
    \E i \in 1..Len(log.items) :
        log.items[i].key = KError /\ log.items[i].val # PyNone

\* C3: execution_success_rate is the number of execution_logs entries whose status
\* equals "success" or which carry no error indicator, over the number of entries,
\* and 1.0 when execution_logs is empty.
C3_ExecutionSuccessRate ==
    Returned =>
        IF execution_logs = PyNone \/ execution_logs = PyList(<<>>)
        THEN SameRate(metrics.execution_success_rate, 1, 1)
        ELSE SameRate(metrics.execution_success_rate,
                      Cardinality({i \in 1..Len(execution_logs.items) :
                                      \/ StatusIsSuccess(execution_logs.items[i])
                                      \/ ~HasErrorIndicator(execution_logs.items[i])}),
                      Len(execution_logs.items))

\* a call returned for two entries, one a success that also carries an error, the
\* other an error with its message: the rate is 1/2
C3_Witness ==
    /\ Returned
    /\ execution_logs = PyList(<<LogSuccessWithError, LogErrorWithKey>>)
    /\ SameRate(metrics.execution_success_rate, 1, 2)

\* the value is null, an empty sequence or mapping, an empty or whitespace-only
\* string, a NaN or infinite number, or a string holding one of the error words
InvalidValue(k, v) ==
    \/ v = PyNone
    \/ v = PyList(<<>>)
    \/ v = PyDict(<<>>)
    \/ v.cls = "str" /\ \A i \in 1..Len(v.text) : v.text[i] \in SpaceSet
    \/ Numeric(v) /\ v.fp \in {"nan", "inf", "-inf"}
    \/ v.cls = "str" /\ \E w \in 1..Len(ErrorWords) : ContainsIgnoringCase(v.text, ErrorWords[w])

\* C4: empty_result_rate is the number of invalid result fields over the number of
\* result fields, every other value counting as not invalid, and 1.0 when results
\* is empty.
C4_EmptyResultRate ==
    Returned =>
        IF Len(Results) = 0
        THEN SameRate(metrics.empty_result_rate, 1, 1)
        ELSE SameRate(metrics.empty_result_rate,
                      Cardinality(FieldsWhere(calculation_results, InvalidValue)),
                      Len(Results))

\* a call returned for a negative number, a non-empty list and the string "NULL":
\* only the string is invalid, the rate is 1/3
C4_Witness ==
    /\ Returned
    /\ calculation_results =
          PyDict(<<Item(KX, PyInt(-10)), Item(KActiveUsers, PyList(<<PyInt(1)>>)),
                   Item(KInvalidRate, PyStr(SNullUpper))>>)
    /\ SameRate(metrics.empty_result_rate, 1, 3)

\* the value of the reference under key k
Expected(k) ==
    ground_truth.items[CHOOSE i \in 1..Len(ground_truth.items) :
                          ground_truth.items[i].key = k].val

InReference(k, v) == \E i \in 1..Len(ground_truth.items) : ground_truth.items[i].key = k

\* the computed value matches the expected one: two numbers within 0.01, two strings
\* equal after trimming and ignoring case, two values of one other kind equal, two
\* values of different non-numeric kinds never
MatchesExpected(v, e) ==
    IF Numeric(v) /\ Numeric(e)
    THEN /\ Thousandths(v) - Thousandths(e) <= 10
         /\ Thousandths(e) - Thousandths(v) <= 10
    ELSE IF v.cls # e.cls THEN FALSE
         ELSE IF v.cls = "str" THEN Lower(Strip(v.text)) = Lower(Strip(e.text))
              ELSE v = e

MatchingField(k, v) == InReference(k, v) /\ MatchesExpected(v, Expected(k))

\* C5: with a reference, accuracy_rate is the number of keys of both results and
\* reference whose values match over the number of keys of both, 1.0 when no key
\* overlaps; no penalty applies, and two numbers match exactly when they differ by
\* at most 0.01.
C5_AccuracyWithReference ==
    (Returned /\ ground_truth.cls = "dict") =>
        LET both == FieldsWhere(calculation_results, InReference)
        IN  IF both = {}
            THEN SameRate(metrics.accuracy_rate, 1, 1)
            ELSE SameRate(metrics.accuracy_rate,
                          Cardinality(FieldsWhere(calculation_results, MatchingField)),
                          Cardinality(both))

\* a call returned for x = 10.005 and user_count = 10.02 against the reference
\* x = 10.0, user_count = 10.0 and a key the results lack: the rate is 1/2
C5_Witness ==
    /\ Returned
    /\ calculation_results =
          PyDict(<<Item(KX, PyFloat(10, 5)), Item(KUserCount, PyFloat(10, 20))>>)
    /\ ground_truth =
          PyDict(<<Item(KX, PyFloat(10, 0)), Item(KUserCount, PyFloat(10, 0)),
                   Item(KActiveUsers, PyInt(10))>>)
    /\ SameRate(metrics.accuracy_rate, 1, 2)

HugeField(k, v) == Exceeds(v, 10000000)

RateFieldOutOfRange(k, v) ==
    /\ \E w \in 1..Len(RateWordsOfKey) : ContainsIgnoringCase(k, RateWordsOfKey[w])
    /\ Negative(v) \/ Exceeds(v, 100)

\* 1.0 - 0.2*a - 0.1*b - 0.3*c in thousandths, for the results of the call
PenalizedScore ==
    LET a == IF Contains(Repr(calculation_results), CountWord)
             THEN Cardinality(FieldsWhere(calculation_results, NegativeField)) ELSE 0
        b == Cardinality(FieldsWhere(calculation_results, HugeField))
        c == Cardinality(FieldsWhere(calculation_results, RateFieldOutOfRange))
    IN  1000 - 200 * a - 100 * b - 300 * c

\* C6: without a reference, accuracy_rate = max(0.0, 1.0 - 0.2*a - 0.1*b - 0.3*c), a
\* the negative numeric fields if the text of the results mapping contains "count",
\* b the numeric fields above 10,000,000, c the rate/ratio fields outside [0, 100].
C6_ConsistencyScore ==
    (Returned /\ ground_truth = PyNone) =>
        SameRate(metrics.accuracy_rate,
                 IF PenalizedScore < 0 THEN 0 ELSE PenalizedScore, 1000)

\* a call returned for user_count = 10000001 and invalid_rate = -10: the second field
\* incurs two penalties (0.2 and 0.3), the first one (0.1), the rate is 0.4
C6_Witness ==
    /\ Returned
    /\ ground_truth = PyNone
    /\ calculation_results =
          PyDict(<<Item(KUserCount, PyInt(10000001)), Item(KInvalidRate, PyInt(-10))>>)
    /\ SameRate(metrics.accuracy_rate, 400, 1000)

Queries == mongodb_queries.items

\* the cross-check of C7 for query i: the query holds the counting keyword and some
\* numeric result is negative, or the query text holds a rate keyword and some
\* numeric result exceeds 100 (keywords found whatever the letter case)
CrossCheckFlags(i) ==
    \/ /\ ContainsIgnoringCase(Queries[i].text, CountWord)
       /\ FieldsWhere(calculation_results, NegativeField) # {}
    \/ /\ \E w \in 1..Len(RateWordsOfQuery) :
             ContainsIgnoringCase(analysis_query.text, RateWordsOfQuery[w])
       /\ \E f \in 1..Len(Results) : Exceeds(Results[f].val, 100)

\* C7: a query that matches no catalog pattern is flagged exactly when the cross-check
\* flags it; semantic_error_rate is the flagged queries over the queries, and 0.0
\* when executed_queries is empty whatever the results.
C7_SemanticErrorRate ==
    Returned =>
        IF mongodb_queries = PyNone \/ Len(Queries) = 0
        THEN SameRate(metrics.semantic_error_rate, 0, 1)
        ELSE SameRate(metrics.semantic_error_rate,
                      Cardinality({i \in 1..Len(Queries) :
                                      \/ MatchesLogicalErrorPattern(Queries[i].text)
                                      \/ CrossCheckFlags(i)}),
                      Len(Queries))

\* a call returned for two queries that match no pattern, the upper-case COUNT query
\* flagged by the negative result, the find query not: the rate is 1/2
C7_Witness ==
    /\ Returned
    /\ mongodb_queries = PyList(<<PyStr(QCountUpper), PyStr(QFind)>>)
    /\ analysis_query = PyStr(TActiveUsers)
    /\ calculation_results = PyDict(<<Item(KActiveUsers, PyInt(-10))>>)
    /\ ~MatchesLogicalErrorPattern(QCountUpper)
    /\ ~MatchesLogicalErrorPattern(QFind)
    /\ SameRate(metrics.semantic_error_rate, 1, 2)

\* C8: a record whose executed_queries holds only the self-comparison query
\* "db.users.find({'user_id': {'$ne': '$user_id'}})" has semantic_error_rate 1.0,
\* whatever the results and the query text.
C8_SelfComparisonFlagged ==
    (Returned /\ mongodb_queries = PyList(<<PyStr(QSelfCompare)>>)) =>
        SameRate(metrics.semantic_error_rate, 1, 1)

OnlyActiveUsersNegative ==
    /\ Returned
    /\ calculation_results = PyDict(<<Item(KActiveUsers, PyInt(-10))>>)
    /\ ground_truth = PyNone

\* C9 as stated: for results = {"active_users": -10} and no reference,
\* empty_result_rate is 0.0 and accuracy_rate is 0.8.
C9_NegativeFieldPenalized ==
    OnlyActiveUsersNegative =>
        /\ SameRate(metrics.empty_result_rate, 0, 1)
        /\ SameRate(metrics.accuracy_rate, 800, 1000)

\* C9 amended: for results = {"active_users": -10} and no reference,
\* empty_result_rate is 0.0 and accuracy_rate is 1.0, the text of the results not
\* containing "count"; for {"user_count": -10} the 0.2 is subtracted, giving 0.8.
C9_NegativeFieldPenalizedIfCount ==
    /\ OnlyActiveUsersNegative =>
          /\ SameRate(metrics.empty_result_rate, 0, 1)
          /\ SameRate(metrics.accuracy_rate, 1, 1)
    /\ (/\ Returned
        /\ calculation_results = PyDict(<<Item(KUserCount, PyInt(-10))>>)
        /\ ground_truth = PyNone) =>
          /\ SameRate(metrics.empty_result_rate, 0, 1)
          /\ SameRate(metrics.accuracy_rate, 800, 1000)

\* a call returned for results = {"active_users": -10} and no reference
C9_Witness == OnlyActiveUsersNegative /\ metrics.accuracy_rate.n = metrics.accuracy_rate.d

Missing(v) == v = PyNone \/ v = PyList(<<>>) \/ v = PyDict(<<>>)

\* C10: evaluate and quick_evaluate never raise when executed_queries, results or
\* execution_logs is missing or empty, with or without a reference; each affected
\* rate takes its default (semantic 0.0, execution success 1.0, empty-result 1.0).
C10_NeverRaisesOnMissingInputs ==
    /\ pc # "raised"
    /\ Returned =>
          /\ Missing(mongodb_queries) => SameRate(metrics.semantic_error_rate, 0, 1)
          /\ Missing(execution_logs) => SameRate(metrics.execution_success_rate, 1, 1)
          /\ Missing(calculation_results) => SameRate(metrics.empty_result_rate, 1, 1)


\* the evaluator was built with an override mapping that lacks a required key
LacksRequiredKey ==
    custom_thresholds.some /\ ~(ThresholdKeys \subseteq DOMAIN custom_thresholds.v)

\* the results are neither a mapping nor missing
NonMappingResults == calculation_results.cls \notin {"dict", "NoneType"}

\* C11: a threshold override lacking one of the four required keys (the empty
\* override included) or a non-mapping value passed as results makes the call fail
\* with the error kind InvalidInputError, never with defaults or another error.
C11_ContractViolationFailsFast ==
    (pc # "start" /\ (LacksRequiredKey \/ NonMappingResults)) =>
        (pc = "raised" /\ error = "InvalidInputError")

\* C12: evaluate leaves the evaluator's thresholds, the record and the reference
\* unchanged, and after any sequence of calls on one evaluator (calls on other
\* records in between included) a call on the same record and reference has the
\* outcome of the first call on them.
C12_EvaluateIdempotentStateless ==
    /\ thresholds = InitThresholds(custom_thresholds)
    /\ \A i \in 1..Len(calls) :
          /\ calls[i].left = calls[i].given
          /\ calls[i].thresholds = InitThresholds(custom_thresholds)
    /\ \A i, j \in 1..Len(calls) :
          calls[i].given = calls[j].given =>
              /\ calls[i].metrics = calls[j].metrics
              /\ calls[i].error = calls[j].error

\* a record was evaluated, then another one, then the first one again, the first
\* call having returned metrics
C12_Witness ==
    /\ Len(calls) = 3
    /\ calls[1].error = ""
    /\ calls[2].given # calls[1].given
    /\ calls[3].given = calls[1].given

\* the log entry's status is "error" and it has no "error" key
StatusErrorWithoutErrorKey(log) ==
    /\ \E i \in 1..Len(log.items) :
          log.items[i].key = KStatus /\ log.items[i].val = PyStr(SErrorWord)
    /\ \A i \in 1..Len(log.items) : log.items[i].key # KError

\* C13: an execution-log entry counts as failed only if its status is not "success"
\* and it has an "error" field that is not None; entries with status "error" and no
\* "error" key count as successful, and a list made only of them has
\* execution_success_rate 1.0.
C13_FailedOnlyWithErrorField ==
    (Returned /\ execution_logs.cls = "list" /\ Len(execution_logs.items) > 0) =>
        LET logs == execution_logs.items
            failed == {i \in 1..Len(logs) :
                          ~StatusIsSuccess(logs[i]) /\ HasErrorIndicator(logs[i])}
        IN  /\ SameRate(metrics.execution_success_rate,
                        Len(logs) - Cardinality(failed), Len(logs))
            /\ (\A i \in 1..Len(logs) : StatusErrorWithoutErrorKey(logs[i])) =>
                  SameRate(metrics.execution_success_rate, 1, 1)

\* a call returned for the entries {"status": "error", "message": "Field not found"}
\* and {"status": "error"}: the rate is 1.0
C13_Witness ==
    /\ Returned
    /\ execution_logs = PyList(<<LogErrorNoKey, LogStatusError>>)
    /\ SameRate(metrics.execution_success_rate, 1, 1)

\* in the query the text "$group" is followed by two occurrences of "_id"
GroupThenTwoIds(q) ==
    LET group == <<"$", "g", "r", "o", "u", "p">>
        id == <<"_", "i", "d">>
    IN  \E i, j, k \in 1..Len(q) :
            /\ i + Len(group) <= j
            /\ j + Len(id) <= k
            /\ StartsAt(q, group, i) /\ StartsAt(q, id, j) /\ StartsAt(q, id, k)

\* the gate of the example ran from its first attempt on the example's query
GateRun ==
    /\ Len(calls) > 0
    /\ custom_thresholds = Some(StrictThresholds)
    /\ LET sim == simulate_analysis_attempt(0)
       IN  calls[1].given = Arguments(PyStr(TLifetimeValue), sim.queries, sim.results,
                                      sim.execution_info, PyNone)

\* C14: every executed query in which "$group" is followed by two occurrences of
\* "_id" is flagged whatever the results; the third simulated attempt of the
\* example gate has semantic_error_rate 0.5 and does not pass, and the 3-attempt
\* gate loop ends without any PASS.
C14_GroupByFlaggedGateNeverPasses ==
    /\ (Returned /\ mongodb_queries.cls = "list") =>
          LET grouped == {i \in 1..Len(mongodb_queries.items) :
                             GroupThenTwoIds(mongodb_queries.items[i].text)}
          IN  metrics.semantic_error_rate.n * Len(mongodb_queries.items)
                  >= Cardinality(grouped) * metrics.semantic_error_rate.d
    /\ (/\ Returned
        /\ IsAttempt(2)
        /\ analysis_query = PyStr(TLifetimeValue)
        /\ custom_thresholds = Some(StrictThresholds)) =>
          /\ SameRate(metrics.semantic_error_rate, 1, 2)
          /\ ~metrics.overall_pass
    /\ GateRun => \A i \in 1..Len(calls) : ~calls[i].metrics.overall_pass
=============================================================================
